---- MODULE Spec2Model ----
(***************************************************************************)
(* TurbineClusterModelChain of windpowerlib                                *)
(* (src/windpowerlib/turbine_cluster_modelchain.py).                       *)
(*                                                                         *)
(* The chain object holds its configuration and its two result attributes; *)
(* the power plant is a borrowed object the chain's methods mutate through *)
(* power_plant.assign_power_curve and power_plant.mean_hub_height.         *)
(* A public call runs to its return or to the error that leaves it; a      *)
(* frame is the state a call works on (the plant, the result attribute,    *)
(* run_model's locals, the log) and `calls` is the trace of collaborator   *)
(* calls of the last public call, each with the arguments it was handed    *)
(* and what it returned.                                                   *)
(*                                                                         *)
(* A Python reference that may be None is a sequence of length <= 1:       *)
(* None is <<>>, a value x is <<x>>.                                       *)
(*                                                                         *)
(* Units: wind speeds measured in m/s, hub-height wind speeds in cm/s,     *)
(* turbulence intensity in percent, density in g/m^3, heights in m,        *)
(* power in kW, block_width in tenths of m/s.                              *)
(***************************************************************************)
EXTENDS Integers, Sequences, FiniteSets, TLC

VARIABLES
    chain,      \* the TurbineClusterModelChain object's attributes
    plant,      \* the power plant object the chain was given
    weather,    \* weather_df of the last public call (None before it)
    last_call,  \* the chain's method the caller called last
    raised,     \* the error that left the last public call (None: it returned)
    calls,      \* collaborator calls of the last public call, in order
    log,        \* logging.debug lines of the last public call
    fresh,      \* weather_df of the last run_model call, if it returned and
                \* the turbines are as they were (None otherwise)
    repeat      \* the last run_model call repeated the run before it

vars == <<chain, plant, weather, last_call, raised, calls, log, fresh, repeat>>

None == <<>>
Some(x) == <<x>>

(***************************************************************************)
(* Bounds of the model.                                                    *)
(***************************************************************************)
\* time steps of a weather series
MaxRows == 2

RECURSIVE SumSeq(_)
SumSeq(s) == IF s = <<>> THEN 0 ELSE Head(s) + SumSeq(Tail(s))

RECURSIVE GCD(_, _)
GCD(a, b) == IF b = 0 THEN a ELSE GCD(b, a % b)

Min(a, b) == IF a < b THEN a ELSE b

(***************************************************************************)
(* Inputs: weather series, turbine inventories, constructor arguments.     *)
(***************************************************************************)
\* The measurements of time step i: wind speed (m/s), turbulence intensity
\* (%), density (g/m^3).
Measured(i) ==
    [wind_speed |-> IF i % 2 = 1 THEN 4 ELSE 12,
     turbulence_intensity |-> IF i % 2 = 1 THEN 10 ELSE 15,
     density |-> 1225]

Column(n, name) == Some([i \in 1..n |-> Measured(i)[name]])

\* The weather_df tables of n rows a caller passes: every column present, or
\* one of the variables without a column.
WeatherOfRows(n) ==
    LET full == [wind_speed |-> Column(n, "wind_speed"),
                 turbulence_intensity |-> Column(n, "turbulence_intensity"),
                 density |-> Column(n, "density")]
    IN {full,
        [full EXCEPT !.turbulence_intensity = None],
        [full EXCEPT !.density = None],
        [full EXCEPT !.wind_speed = None]}

Weathers == WeatherOfRows(MaxRows)

\* Turbine inventories a caller can give the plant: two complete ones of
\* different mean hub height (the second without power coefficient curves),
\* one whose turbine has no hub height and one whose turbine has no power
\* curve.
Turbine(h, p, c, cp) ==
    [hub_height |-> h, nominal_power |-> p, power_curve |-> c,
     power_coefficient_curve |-> cp]

Fleets == { <<Turbine(Some(80), 2000, TRUE, TRUE),
              Turbine(Some(100), 3000, TRUE, TRUE)>>,
            <<Turbine(Some(120), 3000, TRUE, FALSE)>>,
            <<Turbine(None, 2000, TRUE, TRUE)>>,
            <<Turbine(Some(80), 2000, FALSE, TRUE)>> }

WakeLossesModels == {None, Some("power_efficiency_curve"),
                     Some("constant_efficiency"), Some("dena_mean"),
                     Some("no_such_curve")}
Smoothings == {Some(TRUE), Some(FALSE), None}
PowerOutputModels == {"power_curve", "power_coefficient_curve"}
StandardDeviationMethods == {"turbulence_intensity", "Staffell_Pfenninger"}

\* default of the block_width parameter, 0.5 m/s
DefaultBlockWidth == 5

(***************************************************************************)
(* Collaborators. Each returns [ok, ret, exc]: ok says whether the call    *)
(* returned, ret is what it returned (or the attribute it assigned), exc   *)
(* the error it raised.                                                    *)
(***************************************************************************)
Return(x) == [ok |-> TRUE, ret |-> Some(x), exc |-> None]
Raise(e) == [ok |-> FALSE, ret |-> None, exc |-> Some(e)]

\* the catalog of wind efficiency curves: efficiency in percent at a hub
\* wind speed (cm/s)
WindEfficiencyCurveNames == {"dena_mean", "knorr_mean"}
WindEfficiency(name, v) ==
    IF name = "dena_mean" THEN (IF v < 1000 THEN 84 ELSE 93)
    ELSE (IF v < 1000 THEN 80 ELSE 90)

\* wake_losses.reduce_wind_speed(wind_speed, wind_efficiency_curve_name)
reduce_wind_speed(wind_speed, wind_efficiency_curve_name) ==
    IF wind_efficiency_curve_name \notin WindEfficiencyCurveNames
    THEN Raise("KeyError")
    ELSE Return([i \in 1..Len(wind_speed) |->
                   (wind_speed[i]
                    * WindEfficiency(wind_efficiency_curve_name, wind_speed[i]))
                   \div 100])

\* efficiency (percent) an embedded wake losses model bakes into the
\* aggregated curve
EmbeddedEfficiency(wake_losses_model) ==
    IF wake_losses_model = Some("constant_efficiency") THEN 80
    ELSE IF wake_losses_model = Some("power_efficiency_curve") THEN 90
    ELSE 100

\* power_plant.assign_power_curve(wake_losses_model, smoothing, block_width,
\*     standard_deviation_method, smoothing_order, turbulence_intensity):
\* the aggregated curve is a function of the inventory and of the arguments
PowerPlantAssignPowerCurve(turbines, kw) ==
    IF \E i \in 1..Len(turbines) : ~turbines[i].power_curve
    THEN Raise("ValueError")
    ELSE Return([nominal_power |->
                    SumSeq([i \in 1..Len(turbines) |-> turbines[i].nominal_power]),
                 efficiency |-> EmbeddedEfficiency(kw.wake_losses_model),
                 smoothed |-> IF kw.smoothing = Some(TRUE)
                              THEN Some(<<kw.block_width,
                                          kw.standard_deviation_method,
                                          kw.smoothing_order,
                                          kw.turbulence_intensity>>)
                              ELSE None])

\* power_plant.mean_hub_height()
PowerPlantMeanHubHeight(turbines) ==
    IF \E i \in 1..Len(turbines) : turbines[i].hub_height = None
    THEN Raise("TypeError")
    ELSE Return(SumSeq([i \in 1..Len(turbines) |-> turbines[i].hub_height[1]])
                \div Len(turbines))

\* ModelChain.wind_speed_hub(weather_df): the measured wind speed (m/s)
\* taken to the plant's hub height (cm/s)
ModelChainWindSpeedHub(weather_df, hub_height) ==
    IF weather_df.wind_speed = None THEN Raise("KeyError")
    ELSE IF hub_height = None THEN Raise("TypeError")
    ELSE Return([i \in 1..Len(weather_df.wind_speed[1]) |->
                   weather_df.wind_speed[1][i] * (100 + hub_height[1] \div 4)])

\* ModelChain.density_hub(weather_df)
ModelChainDensityHub(weather_df, hub_height) ==
    IF weather_df.density = None THEN Raise("KeyError")
    ELSE IF hub_height = None THEN Raise("TypeError")
    ELSE Return([i \in 1..Len(weather_df.density[1]) |->
                   weather_df.density[1][i] - hub_height[1] \div 10])

\* ModelChain.calculate_power_output(wind_speed_hub, density_hub): the
\* plant's power curve evaluated at each wind speed (rated at 1200 cm/s),
\* scaled by density when one is given; the power coefficient curve model
\* needs the turbines' power coefficient curves
ModelChainCalculatePowerOutput(self, power_plant, wind_speed, density) ==
    IF /\ self.power_output_model = "power_coefficient_curve"
       /\ \E i \in 1..Len(power_plant.turbines) :
             ~power_plant.turbines[i].power_coefficient_curve
    THEN Raise("TypeError")
    ELSE IF power_plant.power_curve = None THEN Raise("TypeError")
    ELSE LET curve == power_plant.power_curve[1]
             P(i) == (((curve.nominal_power * curve.efficiency) \div 100)
                      * Min(wind_speed[i], 1200)) \div 1200
         IN Return([i \in 1..Len(wind_speed) |->
                      IF density = None THEN P(i)
                      ELSE (P(i) * density[1][i]) \div 1225])

(***************************************************************************)
(* TurbineClusterModelChain                                                *)
(***************************************************************************)
\* __init__: the chain after construction
NewChain(wlm, sm, bw, sdm, so, pom, dc) ==
    [wake_losses_model |-> wlm,
     smoothing |-> sm,
     block_width |-> bw,
     standard_deviation_method |-> sdm,
     smoothing_order |-> so,
     power_output_model |-> pom,
     density_correction |-> dc,
     power_curve |-> None,
     power_output |-> None]

\* numpy mean of the column's values, as a fraction in lowest terms
Mean(values) ==
    LET s == SumSeq(values)
        n == Len(values)
        g == GCD(s, n)
    IN <<s \div g, n \div g>>

\* Mutation: the sum of the column instead of its mean.
TurbulenceIntensity_Sum(weather_df) ==
    IF weather_df.turbulence_intensity # None
    THEN Some(<<SumSeq(weather_df.turbulence_intensity[1]), 1>>)
    ELSE None

\* assign_power_curve: "Get turbulence intensity from weather if existent"
TurbulenceIntensity(weather_df) ==
    IF weather_df.turbulence_intensity # None
    THEN Some(Mean(weather_df.turbulence_intensity[1]))
    ELSE None

\* assign_power_curve: the test that picks the wake losses model handed to
\* the aggregator
EmbeddedPath(wake_losses_model) ==
    \/ wake_losses_model = Some("power_efficiency_curve")
    \/ wake_losses_model = Some("constant_efficiency")
    \/ wake_losses_model = None

\* Mutation: the chain's wake_losses_model handed on whatever it is.
wake_losses_model_passed_through(wake_losses_model) == wake_losses_model

wake_losses_model_to_power_curve(wake_losses_model) ==
    IF EmbeddedPath(wake_losses_model) THEN wake_losses_model ELSE None

\* assign_power_curve: the logging.debug line on wake losses
WakeLossesLog(wake_losses_model) ==
    IF EmbeddedPath(wake_losses_model)
    THEN IF wake_losses_model = None
         THEN <<"Wake losses in wind farms are not considered.">>
         ELSE <<"Wake losses considered with {}.", wake_losses_model[1]>>
    ELSE <<"Wake losses considered by {} wind efficiency curve.",
           wake_losses_model[1]>>

\* assign_power_curve: "Further logging messages"
SmoothingLog(smoothing, standard_deviation_method) ==
    IF smoothing = None
    THEN <<"Aggregated power curve not smoothed.">>
    ELSE <<"Aggregated power curve smoothed by method: ",
           standard_deviation_method>>

\* Mutation: "or" for "and" in the test.
DensitySkipped_Or(power_output_model, density_correction) ==
    power_output_model = "power_curve" \/ density_correction = FALSE

\* run_model: the test that skips density_hub
DensitySkipped(power_output_model, density_correction) ==
    power_output_model = "power_curve" /\ density_correction = FALSE

\* Mutation: the test without its 'constant_efficiency' conjunct.
ReduceWindSpeed_NoConstantEfficiency(wake_losses_model) ==
    /\ wake_losses_model # Some("power_efficiency_curve")
    /\ wake_losses_model # None

\* Mutation: the wind speed is reduced for the names of the catalog alone.
ReduceWindSpeed_KnownCurvesOnly(wake_losses_model) ==
    /\ wake_losses_model # None
    /\ wake_losses_model[1] \in WindEfficiencyCurveNames

\* run_model: the test guarding "Reduce wind speed with wind efficiency curve"
ReduceWindSpeed(wake_losses_model) ==
    /\ wake_losses_model # Some("power_efficiency_curve")
    /\ wake_losses_model # Some("constant_efficiency")
    /\ wake_losses_model # None

Call(fn, args, r) == [fn |-> fn, args |-> args, ok |-> r.ok, ret |-> r.ret]

\* The frame a public call starts with.
Frame(power_plant, power_output) ==
    [plant |-> power_plant, power_output |-> power_output,
     wind_speed_hub |-> None, density_hub |-> None,
     calls |-> <<>>, log |-> <<>>, raised |-> None]

\* A collaborator call: the trace gets the call; `then` is the frame when the
\* call returns, and the error leaves the public call when it raises.
Invoke(st, fn, args, r, then) ==
    IF r.ok
    THEN [then EXCEPT !.calls = Append(st.calls, Call(fn, args, r))]
    ELSE [st EXCEPT !.calls = Append(st.calls, Call(fn, args, r)),
                    !.raised = r.exc]

\* assign_power_curve(weather_df)
AssignPowerCurve(self, weather_df, st) ==
    LET turbulence_intensity == TurbulenceIntensity(weather_df)
        kw == [wake_losses_model |->
                   wake_losses_model_to_power_curve(self.wake_losses_model),
               smoothing |-> self.smoothing,
               block_width |-> self.block_width,
               standard_deviation_method |-> self.standard_deviation_method,
               smoothing_order |-> self.smoothing_order,
               turbulence_intensity |-> turbulence_intensity]
        r == PowerPlantAssignPowerCurve(st.plant.turbines, kw)
        logged == [st EXCEPT !.log = Append(@, WakeLossesLog(self.wake_losses_model))]
    IN Invoke(logged, "power_plant.assign_power_curve", kw, r,
              [logged EXCEPT !.plant.power_curve = r.ret,
                             !.log = Append(@, SmoothingLog(self.smoothing,
                                                 self.standard_deviation_method))])

\* run_model: self.power_plant.mean_hub_height()
MeanHubHeight(self, weather_df, st) ==
    LET r == PowerPlantMeanHubHeight(st.plant.turbines)
    IN Invoke(st, "power_plant.mean_hub_height", <<>>, r,
              [st EXCEPT !.plant.hub_height = r.ret])

\* run_model: wind_speed_hub = self.wind_speed_hub(weather_df)
WindSpeedHub(self, weather_df, st) ==
    LET r == ModelChainWindSpeedHub(weather_df, st.plant.hub_height)
    IN Invoke(st, "wind_speed_hub", <<weather_df>>, r,
              [st EXCEPT !.wind_speed_hub = r.ret])

\* run_model: density_hub = (None if ... else self.density_hub(weather_df))
DensityHub(self, weather_df, st) ==
    IF DensitySkipped(self.power_output_model, self.density_correction)
    THEN [st EXCEPT !.density_hub = None]
    ELSE LET r == ModelChainDensityHub(weather_df, st.plant.hub_height)
         IN Invoke(st, "density_hub", <<weather_df>>, r,
                   [st EXCEPT !.density_hub = r.ret])

\* run_model: if ...: wind_speed_hub = wake_losses.reduce_wind_speed(
\*     wind_speed_hub, wind_efficiency_curve_name=self.wake_losses_model)
ReduceWindSpeedStatement(self, weather_df, st) ==
    IF ReduceWindSpeed(self.wake_losses_model)
    THEN LET args == [wind_speed |-> st.wind_speed_hub[1],
                      wind_efficiency_curve_name |-> self.wake_losses_model[1]]
             r == reduce_wind_speed(args.wind_speed,
                                    args.wind_efficiency_curve_name)
         IN Invoke(st, "wake_losses.reduce_wind_speed", args, r,
                   [st EXCEPT !.wind_speed_hub = r.ret])
    ELSE st

\* run_model: self.power_output = self.calculate_power_output(
\*     wind_speed_hub, density_hub)
CalculatePowerOutput(self, weather_df, st) ==
    LET args == [wind_speed_hub |-> st.wind_speed_hub[1],
                 density_hub |-> st.density_hub]
        r == ModelChainCalculatePowerOutput(self, st.plant, args.wind_speed_hub,
                                            args.density_hub)
    IN Invoke(st, "calculate_power_output", args, r,
              [st EXCEPT !.power_output = r.ret])

\* Mutation: the mean hub height computed after the wind speed at hub height.
Statements_HubHeightLate ==
    <<"assign_power_curve", "wind_speed_hub", "mean_hub_height",
      "density_hub", "reduce_wind_speed", "calculate_power_output">>

\* Mutation: the wind speed reduced after the power output is calculated.
Statements_ReduceLast ==
    <<"assign_power_curve", "mean_hub_height", "wind_speed_hub",
      "density_hub", "calculate_power_output", "reduce_wind_speed">>

\* run_model: its statements, in order
Statements == <<"assign_power_curve", "mean_hub_height", "wind_speed_hub",
                "density_hub", "reduce_wind_speed", "calculate_power_output">>

Execute(statement, self, weather_df, st) ==
    CASE statement = "assign_power_curve" -> AssignPowerCurve(self, weather_df, st)
      [] statement = "mean_hub_height" -> MeanHubHeight(self, weather_df, st)
      [] statement = "wind_speed_hub" -> WindSpeedHub(self, weather_df, st)
      [] statement = "density_hub" -> DensityHub(self, weather_df, st)
      [] statement = "reduce_wind_speed" ->
             ReduceWindSpeedStatement(self, weather_df, st)
      [] statement = "calculate_power_output" ->
             CalculatePowerOutput(self, weather_df, st)

\* The statements run one after the other until one raises.
RECURSIVE Run(_, _, _, _)
Run(statements, self, weather_df, st) ==
    IF statements = <<>> \/ st.raised # None THEN st
    ELSE Run(Tail(statements), self, weather_df,
             Execute(Head(statements), self, weather_df, st))

\* Mutation: run_model clears power_output before it starts.
RunModel_ClearsOutput(self, weather_df, st) ==
    Run(Statements, self, weather_df, [st EXCEPT !.power_output = None])

\* run_model(weather_df), from the frame it is entered with
RunModel(self, weather_df, st) == Run(Statements, self, weather_df, st)

(***************************************************************************)
(* State after construction: any of the constructor arguments above        *)
(* (block_width and smoothing_order, which the chain only hands on, at     *)
(* their defaults), a plant that has been assigned neither a power curve   *)
(* nor a mean hub height.                                                  *)
(***************************************************************************)
Init ==
    /\ chain \in {NewChain(wlm, sm, DefaultBlockWidth, sdm,
                           "wind_farm_power_curves", pom, dc) :
                    wlm \in WakeLossesModels, sm \in Smoothings,
                    sdm \in StandardDeviationMethods,
                    pom \in PowerOutputModels, dc \in BOOLEAN}
    /\ plant \in {[turbines |-> f, power_curve |-> None, hub_height |-> None] :
                    f \in Fleets}
    /\ weather = None
    /\ last_call = "__init__"
    /\ raised = None
    /\ calls = <<>>
    /\ log = <<>>
    /\ fresh = None
    /\ repeat = FALSE

\* What a public call leaves behind.
Leave(st) ==
    /\ chain' = [chain EXCEPT !.power_output = st.power_output]
    /\ plant' = st.plant
    /\ raised' = st.raised
    /\ calls' = st.calls
    /\ log' = st.log

\* A caller calls assign_power_curve(weather_df) on its own.
assign_power_curve ==
    /\ \E weather_df \in Weathers :
         /\ Leave(AssignPowerCurve(chain, weather_df,
                                   Frame(plant, chain.power_output)))
         /\ weather' = Some(weather_df)
    /\ last_call' = "assign_power_curve"
    /\ UNCHANGED <<fresh, repeat>>

\* A caller calls run_model(weather_df).
run_model ==
    /\ \E weather_df \in Weathers :
         LET st == RunModel(chain, weather_df, Frame(plant, chain.power_output))
         IN /\ Leave(st)
            /\ weather' = Some(weather_df)
            /\ repeat' = (fresh = Some(weather_df))
            /\ fresh' = IF st.raised = None THEN Some(weather_df) ELSE None
    /\ last_call' = "run_model"

\* Between calls the caller changes the plant's turbine inventory; the
\* plant's power curve and mean hub height are left as they were.
modify_plant ==
    /\ \E f \in Fleets \ {plant.turbines} :
         plant' = [plant EXCEPT !.turbines = f]
    /\ fresh' = None
    /\ UNCHANGED <<chain, weather, last_call, raised, calls, log, repeat>>

\* Between calls the caller calls power_plant.mean_hub_height() itself (an
\* error it raises is the caller's, and the plant is left as it was).
mean_hub_height ==
    /\ LET r == PowerPlantMeanHubHeight(plant.turbines)
       IN /\ r.ok
          /\ plant' = [plant EXCEPT !.hub_height = r.ret]
    /\ UNCHANGED <<chain, weather, last_call, raised, calls, log, fresh, repeat>>

Next ==
    \/ assign_power_curve
    \/ run_model
    \/ modify_plant
    \/ mean_hub_height

Spec == Init /\ [][Next]_vars

(***************************************************************************)
(* Reading the trace of the last public call.                              *)
(***************************************************************************)
CallsTo(fn) == SelectSeq(calls, LAMBDA c : c.fn = fn)

LastCall == calls[Len(calls)]

PublicCall == last_call \in {"assign_power_curve", "run_model"}

Returned(fn) == CallsTo(fn) # <<>> /\ CallsTo(fn)[1].ok

\* the wake losses models whose attenuation the aggregator embeds
EmbeddedModels == {None, Some("power_efficiency_curve"),
                   Some("constant_efficiency")}

(***************************************************************************)
(* C1. Wake-loss path exclusivity in run_model. For wake_losses_model in   *)
(* {None, 'power_efficiency_curve', 'constant_efficiency'}                 *)
(* reduce_wind_speed is never called and calculate_power_output is handed  *)
(* exactly the series wind_speed_hub returned; for every other value       *)
(* reduce_wind_speed is called at most once, on the series wind_speed_hub  *)
(* returned and with wind_efficiency_curve_name = wake_losses_model, and   *)
(* calculate_power_output is handed exactly its result.                    *)
(***************************************************************************)
C1_WakeLossPathExclusive ==
    last_call = "run_model" =>
        LET wsh == CallsTo("wind_speed_hub")
            red == CallsTo("wake_losses.reduce_wind_speed")
            cpo == CallsTo("calculate_power_output")
        IN IF chain.wake_losses_model \in EmbeddedModels
           THEN /\ red = <<>>
                /\ cpo # <<>> => cpo[1].args.wind_speed_hub = wsh[1].ret[1]
           ELSE /\ Len(red) <= 1
                /\ red # <<>> =>
                     /\ red[1].args =
                          [wind_speed |-> wsh[1].ret[1],
                           wind_efficiency_curve_name |->
                               chain.wake_losses_model[1]]
                     /\ red[1].ret =
                          reduce_wind_speed(wsh[1].ret[1],
                                            chain.wake_losses_model[1]).ret
                /\ cpo # <<>> =>
                     /\ Len(red) = 1
                     /\ cpo[1].args.wind_speed_hub = red[1].ret[1]

\* a run with the named curve 'dena_mean' returned, and the series handed to
\* calculate_power_output is the attenuated one
C1_Witness ==
    /\ last_call = "run_model"
    /\ raised = None
    /\ chain.wake_losses_model = Some("dena_mean")
    /\ CallsTo("calculate_power_output")[1].args.wind_speed_hub
         # CallsTo("wind_speed_hub")[1].ret[1]

(***************************************************************************)
(* C2. In every call of assign_power_curve (alone or inside run_model) the *)
(* wake_losses_model handed to power_plant.assign_power_curve is the       *)
(* chain's wake_losses_model when that is None, 'power_efficiency_curve'   *)
(* or 'constant_efficiency', and None otherwise; so in a run that returns, *)
(* a non-None wake_losses_model is applied in exactly one place (in the    *)
(* aggregated curve or on the wind speed) and None in neither.             *)
(***************************************************************************)
C2_AggregatorWakeLossesModel ==
    PublicCall =>
        LET agg == CallsTo("power_plant.assign_power_curve")
            embedded == agg[1].args.wake_losses_model # None
            posthoc == CallsTo("wake_losses.reduce_wind_speed") # <<>>
        IN /\ Len(agg) = 1
           /\ agg[1].args.wake_losses_model =
                IF chain.wake_losses_model \in EmbeddedModels
                THEN chain.wake_losses_model ELSE None
           /\ (last_call = "run_model" /\ raised = None) =>
                IF chain.wake_losses_model = None
                THEN ~embedded /\ ~posthoc
                ELSE embedded # posthoc

\* a run with 'constant_efficiency' returned: the aggregator got the model
\* unchanged and the wind speed reached the final evaluation unattenuated
C2_Witness ==
    /\ last_call = "run_model"
    /\ raised = None
    /\ chain.wake_losses_model = Some("constant_efficiency")
    /\ calls[1].args.wake_losses_model = Some("constant_efficiency")
    /\ CallsTo("wake_losses.reduce_wind_speed") = <<>>
    /\ CallsTo("calculate_power_output")[1].args.wind_speed_hub
         = CallsTo("wind_speed_hub")[1].ret[1]

(***************************************************************************)
(* C3. Density skip rule. In every run_model call that gets as far as the  *)
(* density statement, density_hub is invoked if and only if it is not the  *)
(* case that power_output_model = 'power_curve' and density_correction is  *)
(* False (and never when it is the case); calculate_power_output receives  *)
(* None as density when density_hub was skipped and exactly its result     *)
(* when it was invoked.                                                    *)
(***************************************************************************)
C3_DensitySkipRule ==
    last_call = "run_model" =>
        LET dens == CallsTo("density_hub")
            cpo == CallsTo("calculate_power_output")
            skip == /\ chain.power_output_model = "power_curve"
                    /\ chain.density_correction = FALSE
        IN /\ Len(dens) <= 1
           /\ skip => dens = <<>>
           /\ Returned("wind_speed_hub") => (dens # <<>> <=> ~skip)
           /\ cpo # <<>> =>
                cpo[1].args.density_hub = IF skip THEN None ELSE dens[1].ret

\* a run with power_output_model = 'power_curve' and density_correction =
\* True returned: density_hub was invoked and its result handed on
C3_Witness ==
    /\ last_call = "run_model"
    /\ raised = None
    /\ chain.power_output_model = "power_curve"
    /\ chain.density_correction
    /\ Returned("density_hub")
    /\ CallsTo("calculate_power_output")[1].args.density_hub
         = CallsTo("density_hub")[1].ret
    /\ CallsTo("density_hub")[1].ret # None

(***************************************************************************)
(* C4. For a weather series without a turbulence_intensity column,         *)
(* assign_power_curve reaches power_plant.assign_power_curve (nothing      *)
(* raises before it), passes turbulence_intensity = None and returns when  *)
(* the aggregator does; when the column is present it passes the mean of   *)
(* the column over the whole time series (p/q with p * rows = q * sum).    *)
(***************************************************************************)
C4_TurbulenceIntensityPassed ==
    PublicCall =>
        /\ calls # <<>>
        /\ calls[1].fn = "power_plant.assign_power_curve"
        /\ LET ti == calls[1].args.turbulence_intensity
               column == weather[1].turbulence_intensity
           IN IF column = None
              THEN /\ ti = None
                   /\ (last_call = "assign_power_curve" /\ calls[1].ok)
                        => raised = None
              ELSE /\ ti # None
                   /\ ti[1][2] > 0
                   /\ ti[1][1] * Len(column[1]) = ti[1][2] * SumSeq(column[1])

\* assign_power_curve was called with a weather series that has no
\* turbulence_intensity column; it passed None and returned
C4_Witness ==
    /\ last_call = "assign_power_curve"
    /\ weather[1].turbulence_intensity = None
    /\ calls[1].args.turbulence_intensity = None
    /\ calls[1].ok
    /\ raised = None

(***************************************************************************)
(* C5. After every run_model call that returns, power_output holds the     *)
(* series computed in this call and the chain's power_curve attribute      *)
(* holds the power curve the plant was assigned during this call;          *)
(* power_curve is unset only before the first run.                         *)
(***************************************************************************)
C5_RunResultComplete ==
    (last_call = "run_model" /\ raised = None) =>
        /\ chain.power_output = LastCall.ret
        /\ chain.power_curve # None
        /\ chain.power_curve = calls[1].ret

(***************************************************************************)
(* C6. Lazy failure for a wake_losses_model that is neither None,          *)
(* 'power_efficiency_curve', 'constant_efficiency' nor the name of a wind  *)
(* efficiency curve: the chain is constructed, assign_power_curve calls    *)
(* the aggregator with wake_losses_model = None and returns when it does,  *)
(* and run_model never returns and never calls calculate_power_output;     *)
(* when the run reaches reduce_wind_speed the lookup error is raised       *)
(* there, after power_plant.assign_power_curve and                         *)
(* power_plant.mean_hub_height have returned.                              *)
(***************************************************************************)
UnrecognizedWakeLossesModel ==
    /\ chain.wake_losses_model \notin EmbeddedModels
    /\ chain.wake_losses_model[1] \notin WindEfficiencyCurveNames

C6_LazyFailure ==
    (UnrecognizedWakeLossesModel /\ PublicCall) =>
        /\ calls[1].fn = "power_plant.assign_power_curve"
        /\ calls[1].args.wake_losses_model = None
        /\ (last_call = "assign_power_curve" /\ calls[1].ok) => raised = None
        /\ last_call = "run_model" =>
             /\ raised # None
             /\ CallsTo("calculate_power_output") = <<>>
             /\ (/\ Returned("wind_speed_hub")
                 /\ \/ Returned("density_hub")
                    \/ /\ chain.power_output_model = "power_curve"
                       /\ chain.density_correction = FALSE)
                  => LastCall.fn = "wake_losses.reduce_wind_speed"
             /\ \A i \in 1..Len(calls) :
                  calls[i].fn = "wake_losses.reduce_wind_speed" =>
                    /\ i = Len(calls)
                    /\ ~calls[i].ok
                    /\ raised = Some("KeyError")
                    /\ i > 2
                    /\ calls[1].ok
                    /\ calls[2].fn = "power_plant.mean_hub_height"
                    /\ calls[2].ok

\* a run with an unrecognized curve name got as far as the lookup, which
\* raised
C6_Witness ==
    /\ UnrecognizedWakeLossesModel
    /\ last_call = "run_model"
    /\ LastCall.fn = "wake_losses.reduce_wind_speed"
    /\ raised = Some("KeyError")
    /\ plant.power_curve = calls[1].ret
    /\ plant.hub_height = calls[2].ret

(***************************************************************************)
(* C7. Idempotence of run_model: when run_model has returned and the       *)
(* plant's turbines have not been changed since, a run_model call with the *)
(* same weather returns too and leaves the same power_output.              *)
(***************************************************************************)
C7_Idempotent ==
    [][(fresh # None /\ last_call' = "run_model" /\ weather' = fresh)
       => (raised' = None /\ chain'.power_output = chain.power_output)]_vars

\* a run that repeated the run before it has returned
C7_Witness ==
    /\ repeat
    /\ last_call = "run_model"
    /\ raised = None
    /\ chain.power_output # None

(***************************************************************************)
(* C8. Step ordering inside every run_model call: the collaborator calls   *)
(* are, in this order and each at most once,                               *)
(* power_plant.assign_power_curve, power_plant.mean_hub_height,            *)
(* wind_speed_hub, density_hub (if not skipped), reduce_wind_speed         *)
(* (post-hoc path only), calculate_power_output; a call is made only when  *)
(* every call before it returned, and the run returns exactly when all of  *)
(* them were made and returned.                                            *)
(***************************************************************************)
ExpectedCalls ==
    <<"power_plant.assign_power_curve", "power_plant.mean_hub_height",
      "wind_speed_hub">>
    \o (IF chain.power_output_model = "power_curve"
           /\ chain.density_correction = FALSE
        THEN <<>> ELSE <<"density_hub">>)
    \o (IF chain.wake_losses_model \in EmbeddedModels
        THEN <<>> ELSE <<"wake_losses.reduce_wind_speed">>)
    \o <<"calculate_power_output">>

C8_StepOrder ==
    last_call = "run_model" =>
        /\ 1 <= Len(calls) /\ Len(calls) <= Len(ExpectedCalls)
        /\ \A i \in 1..Len(calls) :
             /\ calls[i].fn = ExpectedCalls[i]
             /\ i < Len(calls) => calls[i].ok
        /\ raised = None <=> (Len(calls) = Len(ExpectedCalls) /\ LastCall.ok)

\* a run on the post-hoc path with density resolved returned: all six calls
C8_Witness ==
    /\ last_call = "run_model"
    /\ raised = None
    /\ Len(calls) = 6

(***************************************************************************)
(* C9. The log lines of assign_power_curve describe the choices applied:   *)
(* the wake-loss line names 'not considered' for None, the embedded model  *)
(* for 'power_efficiency_curve'/'constant_efficiency' and the wind         *)
(* efficiency curve otherwise; the smoothing line says the aggregated      *)
(* power curve was not smoothed whenever smoothing is false and says it    *)
(* was smoothed (by standard_deviation_method) only when smoothing is true.*)
(***************************************************************************)
C9_LogDescribesChoices ==
    (PublicCall /\ calls[1].ok) =>
        /\ log[1] =
             IF chain.wake_losses_model = None
             THEN <<"Wake losses in wind farms are not considered.">>
             ELSE IF chain.wake_losses_model \in EmbeddedModels
             THEN <<"Wake losses considered with {}.",
                    chain.wake_losses_model[1]>>
             ELSE <<"Wake losses considered by {} wind efficiency curve.",
                    chain.wake_losses_model[1]>>
        /\ log[2] =
             IF chain.smoothing = Some(TRUE)
             THEN <<"Aggregated power curve smoothed by method: ",
                    chain.standard_deviation_method>>
             ELSE <<"Aggregated power curve not smoothed.">>

(***************************************************************************)
(* C10. Failure atomicity of the stored result: a collaborator call that   *)
(* raises is the last call of the public call and its error leaves the     *)
(* call; a public call that an error leaves changes no attribute of the    *)
(* chain; power_output is written only by a run_model call that returns,   *)
(* with what its last call, calculate_power_output, returned.              *)
(***************************************************************************)
C10_FailureAtomic ==
    [][/\ \A i \in 1..Len(calls') :
            ~calls'[i].ok => (i = Len(calls') /\ raised' # None)
       /\ raised' # None => chain' = chain
       /\ chain' # chain =>
            /\ last_call' = "run_model"
            /\ raised' = None
            /\ calls'[Len(calls')].fn = "calculate_power_output"
            /\ chain' = [chain EXCEPT
                            !.power_output = calls'[Len(calls')].ret]]_vars

\* a run failed after the aggregator had replaced the plant's power curve,
\* and the chain still holds the output of an earlier run
C10_Witness ==
    /\ last_call = "run_model"
    /\ raised # None
    /\ calls[1].ok
    /\ chain.power_output # None

====
